---- MODULE Spec2Model ----
(***************************************************************************)
(* Blood donation system: the Express donor API (the extended server with  *)
(* fatherName/cnicNumber and the basic server without the pre-checks),     *)
(* the mongoose Donor model behind both, and the pure pieces the routes    *)
(* are made of (required-field check, date check, city normalisation,      *)
(* blood-group check, the +3 months computation).                          *)
(***************************************************************************)
EXTENDS Integers, Sequences, FiniteSets, TLC

VARIABLES
    variant,    \* which server file runs: "extended" or "basic"
    tz,         \* the server's local time zone offset, in hours east of UTC
    now,        \* the server clock, in hours since 2024-01-01T00:00Z
    donors,     \* the donors collection: _id -> stored document
    nextId,     \* the number of documents inserted so far (ids are 1..nextId)
    issued,     \* the tokens signed by the login route
    inflight,   \* per connection: the POST handler suspended at an await, or Idle
    last,       \* the request answered last, its response and the store it met
    nputs,      \* the number of PUT requests served (bounded)
    city,       \* pure-function harness: a city string, as a sequence of characters
    cityOut,    \* pure-function harness: normalisation results for city
    vbody,      \* pure-function harness: a POST body handed to the validation steps
    vout,       \* pure-function harness: the validation outcome for vbody
    client,     \* the browser: localStorage, the route shown, the Dashboard's state
    boot        \* the server process: the connection to MongoDB, listening or exited

vars == <<variant, tz, now, donors, nextId, issued, inflight, last, nputs,
          city, cityOut, vbody, vout, client, boot>>

-----------------------------------------------------------------------------
(* JSON values of a request body and values of a stored document.          *)

Undefined == [t |-> "undefined"]
Null == [t |-> "null"]
Str(s) == [t |-> "string", s |-> s]
Text(c) == [t |-> "text", c |-> c]
DateStr(y, m, d) == [t |-> "datestring", ymd |-> <<y, m, d>>]
DateVal(h) == [t |-> "Date", time |-> h]

\* JavaScript truthiness of a body value: undefined, null and "" are falsy.
Truthy(v) == v # Undefined /\ v # Null /\ v # Str("") /\ v # Text(<<>>)

-----------------------------------------------------------------------------
(* Date: parsing a date-only string, local fields, setMonth.               *)

IsLeap(y) == (y % 4 = 0 /\ y % 100 # 0) \/ y % 400 = 0

DaysInMonth(y, m) ==
    IF m = 2 THEN (IF IsLeap(y) THEN 29 ELSE 28)
    ELSE IF m \in {4, 6, 9, 11} THEN 30 ELSE 31

DaysInYear(y) == IF IsLeap(y) THEN 366 ELSE 365

\* Days from 2024-01-01 to the first of January of year y (negative before 2024).
RECURSIVE DayFromYear(_)
DayFromYear(y) ==
    IF y = 2024 THEN 0
    ELSE IF y > 2024 THEN DayFromYear(y - 1) + DaysInYear(y - 1)
    ELSE DayFromYear(y + 1) - DaysInYear(y)

\* Days from the first of January of y to the first of month m (1..12).
RECURSIVE DaysBeforeMonth(_, _)
DaysBeforeMonth(y, m) ==
    IF m = 1 THEN 0 ELSE DaysBeforeMonth(y, m - 1) + DaysInMonth(y, m - 1)

\* ECMAScript MakeDay: month0 is a month index that may exceed 11, and a day
\* beyond the month's length runs on into the following month.
MakeDay(y, month0, d) ==
    LET ym == y + (month0 \div 12)
        mn == (month0 % 12) + 1
    IN DayFromYear(ym) + DaysBeforeMonth(ym, mn) + d - 1

RECURSIVE YearOfDay(_, _)
YearOfDay(n, y) ==
    IF n < DayFromYear(y) THEN YearOfDay(n, y - 1)
    ELSE IF n >= DayFromYear(y + 1) THEN YearOfDay(n, y + 1)
    ELSE y

RECURSIVE MonthOfDay(_, _, _)
MonthOfDay(rest, y, m) ==
    IF rest < DaysInMonth(y, m) THEN m ELSE MonthOfDay(rest - DaysInMonth(y, m), y, m + 1)

\* The calendar date of day number n.
YMDOfDay(n) ==
    LET y == YearOfDay(n, 2024)
        inYear == n - DayFromYear(y)
        m == MonthOfDay(inYear, y, 1)
    IN [y |-> y, m |-> m, d |-> inYear - DaysBeforeMonth(y, m) + 1]

\* new Date("YYYY-MM-DD"): a date-only string is midnight UTC of that day.
ParseDate(v) == 24 * MakeDay(v.ymd[1], v.ymd[2] - 1, v.ymd[3])

\* date.setMonth(date.getMonth() + 3), on the local-time fields of instant h.
SetMonthPlus3(h, zone) ==
    LET loc == h + zone
        f == YMDOfDay(loc \div 24)
    IN 24 * MakeDay(f.y, (f.m - 1) + 3, f.d) + (loc % 24) - zone

\* date.getMonth(): the month index (0..11) of the local date of instant h.
getMonth(h, zone) == YMDOfDay((h + zone) \div 24).m - 1

\* date.setMonth(month0): the local date and time of instant h with the month
\* index replaced, day overflow running on (MakeDay); the new instant.
setMonth(h, month0, zone) ==
    LET loc == h + zone
        f == YMDOfDay(loc \div 24)
    IN 24 * MakeDay(f.y, month0, f.d) + (loc % 24) - zone

\* today.setHours(0, 0, 0, 0): the start of the local day that contains h.
StartOfLocalDay(h, zone) == 24 * ((h + zone) \div 24) - zone

-----------------------------------------------------------------------------
(* String.prototype.toLowerCase / toUpperCase / split / join on the        *)
(* characters a city may hold.  A character is written as a string; the   *)
(* one written "eszett" is the sharp s (U+00DF), which has no single       *)
(* upper-case character: its upper case is the two characters "SS".        *)

LowerChar(ch) ==
    CASE ch = "A" -> "a"
      [] ch = "S" -> "s"
      [] OTHER -> ch

UpperString(ch) ==
    CASE ch = "a" -> <<"A">>
      [] ch = "s" -> <<"S">>
      [] ch = "eszett" -> <<"S", "S">>
      [] OTHER -> <<ch>>

toLowerCase(s) == [i \in 1..Len(s) |-> LowerChar(s[i])]

\* s.split(' '): the words between single spaces, empty words included.
RECURSIVE SplitFrom(_, _, _)
SplitFrom(s, i, word) ==
    IF i > Len(s) THEN <<word>>
    ELSE IF s[i] = " " THEN <<word>> \o SplitFrom(s, i + 1, <<>>)
    ELSE SplitFrom(s, i + 1, Append(word, s[i]))

split(s) == SplitFrom(s, 1, <<>>)

RECURSIVE join(_)
join(words) ==
    IF Len(words) = 0 THEN <<>>
    ELSE IF Len(words) = 1 THEN words[1]
    ELSE words[1] \o <<" ">> \o join(Tail(words))

\* word.charAt(0).toUpperCase() + word.slice(1)
CapitalizeWord(word) ==
    IF Len(word) = 0 THEN <<>> ELSE UpperString(word[1]) \o Tail(word)

\* The city normalisation of the POST route.
NormalizeCity(s) ==
    LET words == split(toLowerCase(s))
    IN join([i \in 1..Len(words) |-> CapitalizeWord(words[i])])

-----------------------------------------------------------------------------
(* The fields of a donor and the synchronous validation of POST /donors.   *)

FieldNames ==
    {"name", "fatherName", "contactNumber", "cnicNumber", "address", "city",
     "bloodGroup", "department", "semester", "lastDonation", "nextAvailableDate"}

\* requiredFields of the POST route, in the order the route lists them.
RequiredFields(v) ==
    IF v = "extended"
    THEN <<"name", "fatherName", "contactNumber", "cnicNumber", "address", "city",
           "bloodGroup", "department", "semester">>
    ELSE <<"name", "contactNumber", "address", "city", "bloodGroup", "department",
           "semester">>

\* A faulty list: AB+ left out.
validBloodGroupsWithoutABPlus ==
    {Str("A+"), Str("A-"), Str("B+"), Str("B-"), Str("AB-"), Str("O+"), Str("O-")}

validBloodGroups ==
    {Str("A+"), Str("A-"), Str("B+"), Str("B-"), Str("AB+"), Str("AB-"),
     Str("O+"), Str("O-")}

NoErrors == [f \in {} |-> ""]

\* An HTTP response: status, message, missingFields, validationErrors and the
\* JSON payload (a document, a list of documents, a token or Undefined).
Response(status, message, missing, errors, payload) ==
    [status |-> status, message |-> message, missingFields |-> missing,
     validationErrors |-> errors, payload |-> payload]

\* A faulty filter: only an absent key counts as missing, an empty string does not.
MissingFieldsAbsentOnly(v, body) ==
    SelectSeq(RequiredFields(v), LAMBDA f : body[f] = Undefined)

\* requiredFields.filter(field => !req.body[field])
MissingFields(v, body) ==
    SelectSeq(RequiredFields(v), LAMBDA f : ~Truthy(body[f]))

MissingResponse(missing) ==
    Response(400, "Missing required fields", missing,
             [f \in {missing[i] : i \in 1..Len(missing)} |-> f \o " is required"],
             Undefined)

\* A faulty date check: the comparison without today.setHours(0, 0, 0, 0).
InFutureAgainstClock(body, clock, zone) ==
    /\ Truthy(body.lastDonation)
    /\ ParseDate(body.lastDonation) > clock

\* lastDonationDate > today, today being the start of the server's local day.
InFuture(body, clock, zone) ==
    /\ Truthy(body.lastDonation)
    /\ ParseDate(body.lastDonation) > StartOfLocalDay(clock, zone)

FutureDateResponse ==
    Response(400, "Invalid last donation date", <<>>,
             [f \in {"lastDonation"} |-> "Last donation date cannot be in the future"],
             Undefined)

BloodGroupResponse ==
    Response(400, "Invalid blood group", <<>>,
             [f \in {"bloodGroup"} |->
                 "Blood group must be one of: A+, A-, B+, B-, AB+, AB-, O+, O-"],
             Undefined)

\* A faulty route: the city is left as it was sent.
WithCityAsSent(body) == body

\* req.body.city = normalised city, when req.body.city is truthy.
WithNormalizedCity(body) ==
    IF Truthy(body.city)
    THEN [body EXCEPT !.city = Text(NormalizeCity(body.city.c))]
    ELSE body

\* A faulty order of the steps: the blood-group check ahead of the date check.
PostValidateBloodGroupFirst(v, body, clock, zone) ==
    LET missing == MissingFields(v, body)
        normal == WithNormalizedCity(body)
    IN IF Len(missing) > 0
         THEN [ok |-> FALSE, resp |-> MissingResponse(missing), body |-> body]
       ELSE IF normal.bloodGroup \notin validBloodGroups
         THEN [ok |-> FALSE, resp |-> BloodGroupResponse, body |-> normal]
       ELSE IF InFuture(body, clock, zone)
         THEN [ok |-> FALSE, resp |-> FutureDateResponse, body |-> body]
       ELSE [ok |-> TRUE, resp |-> Undefined, body |-> normal]

\* The POST route up to its first await: the required-field check, the date
\* check, the city normalisation and the blood-group check, each returning
\* at once when it fails.  ok is TRUE when the route goes on to the store.
PostValidate(v, body, clock, zone) ==
    LET missing == MissingFields(v, body)
        normal == WithNormalizedCity(body)
    IN IF Len(missing) > 0
         THEN [ok |-> FALSE, resp |-> MissingResponse(missing), body |-> body]
       ELSE IF InFuture(body, clock, zone)
         THEN [ok |-> FALSE, resp |-> FutureDateResponse, body |-> body]
       ELSE IF normal.bloodGroup \notin validBloodGroups
         THEN [ok |-> FALSE, resp |-> BloodGroupResponse, body |-> normal]
       ELSE [ok |-> TRUE, resp |-> Undefined, body |-> normal]

-----------------------------------------------------------------------------
(* The mongoose Donor model and the store operations the routes use.       *)

\* donorData of the POST route: the body with lastDonation parsed and
\* nextAvailableDate overwritten.
DonorData(body, zone) ==
    [body EXCEPT
        !.lastDonation =
            IF Truthy(body.lastDonation)
            THEN DateVal(ParseDate(body.lastDonation)) ELSE Null,
        !.nextAvailableDate =
            IF Truthy(body.lastDonation)
            THEN DateVal(setMonth(ParseDate(body.lastDonation),
                                  getMonth(ParseDate(body.lastDonation), zone) + 3,
                                  zone))
            ELSE Null]

\* The paths the schema declares required.
SchemaRequired ==
    {"name", "fatherName", "contactNumber", "cnicNumber", "address", "city",
     "bloodGroup", "department", "semester"}

\* Document validation run by save(): required paths and the bloodGroup enum.
\* The result maps each failing path to its message.
SchemaErrors(doc) ==
    LET empty == {f \in SchemaRequired : ~Truthy(doc[f])}
        enum == IF Truthy(doc.bloodGroup) /\ doc.bloodGroup \notin validBloodGroups
                THEN {"bloodGroup"} ELSE {}
    IN [f \in empty \cup enum |->
           IF f \in empty THEN "Path " \o f \o " is required."
           ELSE doc[f].s \o " is not a valid enum value for path bloodGroup."]

\* donorSchema.pre('save'): recompute nextAvailableDate from lastDonation.
PreSave(doc, zone) ==
    IF Truthy(doc.lastDonation)
    THEN [doc EXCEPT !.nextAvailableDate =
             DateVal(SetMonthPlus3(doc.lastDonation.time, zone))]
    ELSE doc

\* The key a unique index files a value under: a missing field is filed as null.
IndexKey(v) == IF v = Undefined THEN Null ELSE v

\* A faulty schema: no unique index on cnicNumber.
NoUniqueIndex(store, doc, self) == FALSE

\* The schema's unique index (cnicNumber: unique): would storing doc under
\* _id self collide with another document?  contactNumber has no index.
DuplicateKey(store, doc, self) ==
    \E i \in DOMAIN store :
        i # self /\ IndexKey(store[i].cnicNumber) = IndexKey(doc.cnicNumber)

\* Donor.findOne({field: value})
FindOne(store, field, value) ==
    {i \in DOMAIN store : store[i][field] = value}

\* A faulty updateData: a nextAvailableDate the body carries is kept.
UpdateDataKeepClient(body, zone) ==
    IF Truthy(body.lastDonation) /\ ~Truthy(body.nextAvailableDate)
    THEN [body EXCEPT !.nextAvailableDate =
             DateVal(SetMonthPlus3(ParseDate(body.lastDonation), zone))]
    ELSE body

\* updateData of the PUT route.
UpdateData(body, zone) ==
    IF Truthy(body.lastDonation)
    THEN [body EXCEPT !.nextAvailableDate =
             DateVal(SetMonthPlus3(ParseDate(body.lastDonation), zone))]
    ELSE body

\* Casting of an update value to the path's schema type: a date string becomes
\* a Date and "" becomes null on the Date paths; strings are kept as they are.
CastValue(f, v) ==
    IF f \in {"lastDonation", "nextAvailableDate"}
    THEN (IF v.t = "datestring" THEN DateVal(ParseDate(v))
          ELSE IF v = Str("") THEN Null ELSE v)
    ELSE v

\* The document after $set of every key the update carries (no validators,
\* no save hooks run on findByIdAndUpdate).
ApplyUpdate(doc, update) ==
    [f \in FieldNames |->
        IF update[f] = Undefined THEN doc[f] ELSE CastValue(f, update[f])]

Insert(store, id, doc) == [i \in DOMAIN store \cup {id} |-> IF i = id THEN doc ELSE store[i]]
\* A faulty delete: the whole collection is dropped.
RemoveAll(store, id) == <<>>

Remove(store, id) == [i \in DOMAIN store \ {id} |-> store[i]]

-----------------------------------------------------------------------------
(* Login and the authentication middleware.                                *)

adminUsername == Str("admin")
adminPassword == Str("admin123")

\* expiresIn: '24h'
TokenHours == 24

\* jwt.sign({ username }, config.jwtSecret, { expiresIn: '24h' })
SignToken(clock) == [t |-> "jwt", iat |-> clock, signedBy |-> "server"]

\* A token signed with another secret.
ForgedToken == [t |-> "jwt", iat |-> 0, signedBy |-> "client"]

\* jwt.verify: the signature is the server's and the token has not expired.
VerifyToken(token, clock) ==
    token.signedBy = "server" /\ clock < token.iat + TokenHours

\* A faulty middleware: any token that is present is let through.
authenticateAnyToken(token, clock) ==
    IF token = Undefined THEN 401 ELSE 0

\* authenticateToken: 0 when next() is called, else the status answered.
authenticateToken(token, clock) ==
    IF token = Undefined THEN 401
    ELSE IF ~VerifyToken(token, clock) THEN 403
    ELSE 0

AuthResponse(status) ==
    Response(status,
             IF status = 401 THEN "Authentication required" ELSE "Invalid token",
             <<>>, NoErrors, Undefined)

-----------------------------------------------------------------------------
(* Bounds and input sets.                                                  *)

MaxCityLen == 3

Variants == {"extended", "basic"}

\* Server time zones, in hours east of UTC.
Zones == {0 - 5, 0, 5}

\* The zone the server runs in while it serves requests.
ServerZones == {5}

\* 2024-05-10T02:00Z and 2024-05-10T21:00Z.
Clock0 == 24 * MakeDay(2024, 4, 10) + 2
Clock1 == 24 * MakeDay(2024, 4, 10) + 21

CityAlphabet == {"a", "A", " ", "eszett"}

CityStrings == UNION {[1..n -> CityAlphabet] : n \in 0..MaxCityLen}

PastDate == DateStr(2024, 1, 31)
TodayDate == DateStr(2024, 5, 10)
FutureDate == DateStr(2024, 5, 12)

CityNotRun == [n |-> 0, once |-> <<>>, twice |-> <<>>]

\* The server and the other harness stay as constructed while a harness runs.
\* The browser as opened on "/": nothing in localStorage, the Dashboard's
\* useState initial values, no request under way.  nfetch counts the calls of
\* fetchDonors; latest remembers the answer to the newest of them that the
\* mounted Dashboard has received.
NoStats == [totalDonors |-> 0, bloodGroupCount |-> <<>>, cityCount |-> <<>>,
            recentDonations |-> 0]

ClientStart ==
    [token |-> Undefined, path |-> "/", view |-> "Login",
     donors |-> <<>>, filteredDonors |-> <<>>, stats |-> NoStats, loading |-> TRUE,
     nfetch |-> 0, requests |-> {}, latest |-> [seq |-> 0, data |-> <<>>]]

\* The server process at its first line, and once it serves requests; code
\* is the exit code of a process that has exited.
BootStart == [db |-> "connecting", pc |-> "connect", proc |-> "starting", code |-> 0]
Running == [db |-> "connected", pc |-> "done", proc |-> "listening", code |-> 0]

ServerIdle ==
    /\ donors = <<>> /\ nextId = 0 /\ issued = {} /\ inflight = <<>>
    /\ last = Undefined /\ nputs = 0
    /\ client = ClientStart /\ boot = Running

-----------------------------------------------------------------------------
(* Harness for the city normalisation: apply it once, then to its result.  *)

InitCity ==
    /\ city \in CityStrings
    /\ cityOut = CityNotRun
    /\ variant = "extended" /\ tz = 0 /\ now = Clock0
    /\ vbody = Undefined /\ vout = Undefined
    /\ ServerIdle

NormalizeOnce ==
    /\ cityOut.n = 0
    /\ cityOut' = [cityOut EXCEPT !.n = 1, !.once = NormalizeCity(city)]
    /\ UNCHANGED <<variant, tz, now, donors, nextId, issued, inflight, last, nputs,
                   city, vbody, vout, client, boot>>

NormalizeAgain ==
    /\ cityOut.n = 1
    /\ cityOut' = [cityOut EXCEPT !.n = 2, !.twice = NormalizeCity(cityOut.once)]
    /\ UNCHANGED <<variant, tz, now, donors, nextId, issued, inflight, last, nputs,
                   city, vbody, vout, client, boot>>

NextCity == NormalizeOnce \/ NormalizeAgain

SpecCity == InitCity /\ [][NextCity]_vars

-----------------------------------------------------------------------------
(* Harness for the validation steps of POST /donors: one body, one server  *)
(* variant, one clock reading, one time zone.                              *)

ValidateBodies ==
    [name : {Undefined, Str(""), Str("Ali")},
     fatherName : {Null, Str("Khan")},
     contactNumber : {Undefined, Str("0300-1111111")},
     cnicNumber : {Str(""), Str("11111-1111111-1")},
     address : {Str(""), Str("Street 1")},
     city : {Undefined, Text(<<"a", "A">>)},
     bloodGroup : {Undefined, Str("X+"), Str("ab+"), Str("A+"), Str("A-"), Str("B+"),
                   Str("B-"), Str("AB+"), Str("AB-"), Str("O+"), Str("O-")},
     department : {Undefined, Str("CS")},
     semester : {Null, Str("5")},
     lastDonation : {Undefined, Str(""), PastDate, TodayDate, FutureDate},
     nextAvailableDate : {Undefined}]

InitValidate ==
    /\ vbody \in ValidateBodies
    /\ vout = Undefined
    /\ variant \in Variants /\ tz \in Zones /\ now \in {Clock0, Clock1}
    /\ city = <<>> /\ cityOut = CityNotRun
    /\ ServerIdle

Validate ==
    /\ vout = Undefined
    /\ vout' = PostValidate(variant, vbody, now, tz)
    /\ UNCHANGED <<variant, tz, now, donors, nextId, issued, inflight, last, nputs,
                   city, cityOut, vbody, client, boot>>

NextValidate == Validate

SpecValidate == InitValidate /\ [][NextValidate]_vars

-----------------------------------------------------------------------------
(* The server: requests, the POST handler's awaits, the clock.             *)

MaxDonors == 2
MaxPuts == 1

\* Connections that may each hold one POST handler suspended at an await.
Conns == {"c1", "c2"}

Ids == 1..MaxDonors

Idle == [pc |-> "idle", sent |-> Undefined, body |-> Undefined, token |-> Undefined]

EmptyBody == [f \in FieldNames |-> Undefined]

Phone1 == Str("0300-1111111")
Phone2 == Str("0300-2222222")
Cnic1 == Str("11111-1111111-1")
Cnic2 == Str("22222-2222222-2")
ClientNextDate == DateStr(2024, 3, 15)

\* A body with every field of the add-donor form filled in.
FullBody(phone, cnic, lastDonation, nextAvailable) ==
    [name |-> Str("Ali"), fatherName |-> Str("Khan"), contactNumber |-> phone,
     cnicNumber |-> cnic, address |-> Str("Street 1"), city |-> Text(<<"a", "A">>),
     bloodGroup |-> Str("AB+"), department |-> Str("CS"), semester |-> Str("5"),
     lastDonation |-> lastDonation, nextAvailableDate |-> nextAvailable]

ValidPostBodies ==
    {FullBody(Phone1, Cnic1, Str(""), Str("")),
     FullBody(Phone1, Cnic1, PastDate, Undefined),
     FullBody(Phone1, Cnic1, PastDate, ClientNextDate),
     FullBody(Phone1, Cnic2, PastDate, ClientNextDate),
     FullBody(Phone2, Cnic1, Str(""), Str("")),
     FullBody(Phone2, Cnic2, PastDate, ClientNextDate)}

PostBodies ==
    ValidPostBodies \cup
    {[FullBody(Phone1, Cnic1, PastDate, Undefined) EXCEPT !.name = Str("")],
     [FullBody(Phone1, Cnic1, FutureDate, Undefined) EXCEPT !.bloodGroup = Str("X+")],
     FullBody(Phone1, Cnic1, FutureDate, Undefined),
     [FullBody(Phone2, Undefined, PastDate, Undefined) EXCEPT !.fatherName = Undefined]}

PutBodies ==
    {[EmptyBody EXCEPT !.contactNumber = Phone1],
     [EmptyBody EXCEPT !.cnicNumber = Cnic1],
     [EmptyBody EXCEPT !.cnicNumber = Null],
     [EmptyBody EXCEPT !.lastDonation = Null],
     [EmptyBody EXCEPT !.lastDonation = FutureDate],
     [EmptyBody EXCEPT !.nextAvailableDate = ClientNextDate],
     [EmptyBody EXCEPT !.lastDonation = PastDate,
                       !.nextAvailableDate = ClientNextDate],
     [EmptyBody EXCEPT !.city = Text(<<"a", "A">>)],
     [EmptyBody EXCEPT !.bloodGroup = Str("X+")]}

\* The Authorization a request may carry: none, a forged token, or a token
\* the login route has signed.
Tokens == {Undefined, ForgedToken} \cup issued

\* What the server did last: the request (or the resumed handler), and the
\* response it sent (Undefined while the handler is suspended at an await).
Event(op, step, conn, id, body, token, resp) ==
    [op |-> op, step |-> step, conn |-> conn, id |-> id, body |-> body,
     token |-> token, resp |-> resp]

WithId(id, doc) == [_id |-> id, doc |-> doc]

Init ==
    /\ variant \in Variants
    /\ tz \in ServerZones
    /\ now = Clock0
    /\ donors = <<>>
    /\ nextId = 0
    /\ issued = {}
    /\ inflight = [c \in Conns |-> Idle]
    /\ last = Event("start", "", "", 0, Undefined, Undefined, Undefined)
    /\ nputs = 0
    /\ city = <<>> /\ cityOut = CityNotRun
    /\ vbody = Undefined /\ vout = Undefined
    /\ client = ClientStart /\ boot = Running

harness == <<city, cityOut, vbody, vout, client, boot>>

\* The body of a login request.
Credentials(username, password) == [username |-> username, password |-> password]

\* A faulty login: the password is not compared.
LoginUsernameOnly(username, password) ==
    /\ IF username = adminUsername
       THEN /\ issued' = issued \cup {SignToken(now)}
            /\ last' = Event("login", "request", "", 0,
                             Credentials(username, password), Undefined,
                             Response(200, "", <<>>, NoErrors, SignToken(now)))
       ELSE /\ issued' = issued
            /\ last' = Event("login", "request", "", 0,
                             Credentials(username, password), Undefined,
                             Response(401, "Invalid credentials", <<>>, NoErrors,
                                      Undefined))
    /\ UNCHANGED <<variant, tz, now, donors, nextId, inflight, nputs, harness>>

\* POST /api/auth/login
Login(username, password) ==
    /\ IF username = adminUsername /\ password = adminPassword
       THEN /\ issued' = issued \cup {SignToken(now)}
            /\ last' = Event("login", "request", "", 0,
                             Credentials(username, password), Undefined,
                             Response(200, "", <<>>, NoErrors, SignToken(now)))
       ELSE /\ issued' = issued
            /\ last' = Event("login", "request", "", 0,
                             Credentials(username, password), Undefined,
                             Response(401, "Invalid credentials", <<>>, NoErrors,
                                      Undefined))
    /\ UNCHANGED <<variant, tz, now, donors, nextId, inflight, nputs, harness>>

\* Donor.find().sort({ createdAt: -1 }): the documents, newest first.
RECURSIVE NewestFirst(_, _)
NewestFirst(store, id) ==
    IF id = 0 THEN <<>>
    ELSE (IF id \in DOMAIN store THEN <<WithId(id, store[id])>> ELSE <<>>)
         \o NewestFirst(store, id - 1)

\* GET /api/donors
ListDonors(token) ==
    /\ last' = Event("list", "request", "", 0, Undefined, token,
                     IF authenticateToken(token, now) # 0
                     THEN AuthResponse(authenticateToken(token, now))
                     ELSE Response(200, "", <<>>, NoErrors, NewestFirst(donors, nextId)))
    /\ UNCHANGED <<variant, tz, now, donors, nextId, issued, inflight, nputs, harness>>

\* GET /api/donors/:id
GetDonor(id, token) ==
    /\ last' = Event("get", "request", "", id, Undefined, token,
                     IF authenticateToken(token, now) # 0
                     THEN AuthResponse(authenticateToken(token, now))
                     ELSE IF id \notin DOMAIN donors
                     THEN Response(404, "Donor not found", <<>>, NoErrors, Undefined)
                     ELSE Response(200, "", <<>>, NoErrors, WithId(id, donors[id])))
    /\ UNCHANGED <<variant, tz, now, donors, nextId, issued, inflight, nputs, harness>>

\* DELETE /api/donors/:id
DeleteDonor(id, token) ==
    /\ IF authenticateToken(token, now) # 0
       THEN /\ donors' = donors
            /\ last' = Event("delete", "request", "", id, Undefined, token,
                             AuthResponse(authenticateToken(token, now)))
       ELSE /\ donors' = Remove(donors, id)
            /\ last' = Event("delete", "request", "", id, Undefined, token,
                             Response(204, "", <<>>, NoErrors, Undefined))
    /\ UNCHANGED <<variant, tz, now, nextId, issued, inflight, nputs, harness>>

ContactTakenResponse ==
    Response(400, "Contact number already registered", <<>>,
             [f \in {"contactNumber"} |-> "This contact number is already registered"],
             Undefined)

CnicTakenResponse ==
    Response(400, "CNIC number already registered", <<>>,
             [f \in {"cnicNumber"} |-> "This CNIC number is already registered"],
             Undefined)

\* The answer of the POST route's catch block to error code 11000.
DuplicateResponse(v) ==
    Response(400, "Duplicate entry found", <<>>,
             [f \in (IF v = "extended" THEN {"contactNumber", "cnicNumber"}
                     ELSE {"contactNumber"}) |->
                 IF f = "contactNumber" THEN "This contact number is already registered"
                 ELSE "This CNIC number is already registered"],
             Undefined)

\* A faulty save: the document is written before it is validated and before
\* the unique index is consulted.
SaveDonorInsertFirst(store, id, body, v, zone) ==
    LET data == DonorData(body, zone)
        errors == SchemaErrors(data)
        doc == PreSave(data, zone)
    IN IF DOMAIN errors # {}
         THEN [store |-> Insert(store, id, doc),
               resp |-> Response(400, "Error creating donor", <<>>, errors, Undefined)]
       ELSE IF DuplicateKey(store, doc, id)
         THEN [store |-> Insert(store, id, doc), resp |-> DuplicateResponse(v)]
       ELSE [store |-> Insert(store, id, doc),
             resp |-> Response(201, "", <<>>, NoErrors, WithId(id, doc))]

\* new Donor(donorData) and donor.save(): validation, the pre-save hook, the
\* insert under the unique index, and the route's answer to each outcome.
SaveDonor(store, id, body, v, zone) ==
    LET data == DonorData(body, zone)
        errors == SchemaErrors(data)
        doc == PreSave(data, zone)
    IN IF DOMAIN errors # {}
         THEN [store |-> store,
               resp |-> Response(400, "Error creating donor", <<>>, errors, Undefined)]
       ELSE IF DuplicateKey(store, doc, id)
         THEN [store |-> store, resp |-> DuplicateResponse(v)]
       ELSE [store |-> Insert(store, id, doc),
             resp |-> Response(201, "", <<>>, NoErrors, WithId(id, doc))]

\* The POST route from the arrival of the request to its first store
\* operation: the middleware, the validation steps, then findOne on
\* contactNumber (extended server) or save (basic server).
PostArrives(body, token) ==
    LET auth == authenticateToken(token, now)
        checked == PostValidate(variant, body, now, tz)
        saved == SaveDonor(donors, nextId + 1, checked.body, variant, tz)
    IN IF auth # 0
         THEN [store |-> donors, pc |-> "idle", body |-> body, resp |-> AuthResponse(auth)]
       ELSE IF ~checked.ok
         THEN [store |-> donors, pc |-> "idle", body |-> checked.body, resp |-> checked.resp]
       ELSE IF variant = "extended"
         THEN (IF FindOne(donors, "contactNumber", checked.body.contactNumber) # {}
               THEN [store |-> donors, pc |-> "idle", body |-> checked.body,
                     resp |-> ContactTakenResponse]
               ELSE [store |-> donors, pc |-> "findCnic", body |-> checked.body,
                     resp |-> Undefined])
       ELSE [store |-> saved.store, pc |-> "idle", body |-> checked.body, resp |-> saved.resp]

Busy == {c \in Conns : inflight[c] # Idle}

Created(resp) == resp # Undefined /\ resp.status = 201

\* POST /api/donors arrives on connection c.
PostDonor(c, body, token) ==
    /\ inflight[c] = Idle
    /\ nextId + Cardinality(Busy) < MaxDonors
    /\ LET r == PostArrives(body, token)
       IN /\ donors' = r.store
          /\ nextId' = IF Created(r.resp) THEN nextId + 1 ELSE nextId
          /\ inflight' = [inflight EXCEPT ![c] =
                 IF r.pc = "idle" THEN Idle
                 ELSE [pc |-> r.pc, sent |-> body, body |-> r.body, token |-> token]]
          /\ last' = Event("post", "request", "", 0, body, token, r.resp)
    /\ UNCHANGED <<variant, tz, now, issued, nputs, harness>>

\* The extended POST handler resumes after findOne on contactNumber and
\* runs findOne on cnicNumber.
PostFindCnic(c) ==
    /\ inflight[c].pc = "findCnic"
    /\ LET taken == FindOne(donors, "cnicNumber", inflight[c].body.cnicNumber) # {}
       IN /\ inflight' = [inflight EXCEPT ![c] =
                 IF taken THEN Idle ELSE [inflight[c] EXCEPT !.pc = "save"]]
          /\ last' = Event("post", "resume", "", 0, inflight[c].sent, inflight[c].token,
                           IF taken THEN CnicTakenResponse ELSE Undefined)
    /\ UNCHANGED <<variant, tz, now, donors, nextId, issued, nputs, harness>>

\* The extended POST handler resumes after findOne on cnicNumber and saves.
PostSave(c) ==
    /\ inflight[c].pc = "save"
    /\ LET r == SaveDonor(donors, nextId + 1, inflight[c].body, variant, tz)
       IN /\ donors' = r.store
          /\ nextId' = IF Created(r.resp) THEN nextId + 1 ELSE nextId
          /\ last' = Event("post", "resume", "", 0, inflight[c].sent, inflight[c].token,
                           r.resp)
    /\ inflight' = [inflight EXCEPT ![c] = Idle]
    /\ UNCHANGED <<variant, tz, now, issued, nputs, harness>>

\* A faulty update: findByIdAndUpdate with upsert, which creates the document
\* when the id matches none.
UpdateDonorUpsert(store, id, body, zone) ==
    LET update == UpdateData(body, zone)
        doc == ApplyUpdate(IF id \in DOMAIN store THEN store[id] ELSE EmptyBody, update)
    IN IF DuplicateKey(store, doc, id)
         THEN [store |-> store,
               resp |-> Response(500, "Error updating donor", <<>>, NoErrors, Undefined)]
       ELSE [store |-> Insert(store, id, doc),
             resp |-> Response(200, "", <<>>, NoErrors, WithId(id, doc))]

\* The PUT route on a given store: updateData, findByIdAndUpdate and the
\* answer.  The route is registered without the authentication middleware.
UpdateDonor(store, id, body, zone) ==
    LET update == UpdateData(body, zone)
        doc == ApplyUpdate(store[id], update)
    IN IF id \notin DOMAIN store
         THEN [store |-> store,
               resp |-> Response(404, "Donor not found", <<>>, NoErrors, Undefined)]
       ELSE IF DuplicateKey(store, doc, id)
         THEN [store |-> store,
               resp |-> Response(500, "Error updating donor", <<>>, NoErrors, Undefined)]
       ELSE [store |-> [store EXCEPT ![id] = doc],
             resp |-> Response(200, "", <<>>, NoErrors, WithId(id, doc))]

\* PUT /api/donors/:id
PutDonor(id, body, token) ==
    /\ nputs < MaxPuts
    /\ nputs' = nputs + 1
    /\ donors' = UpdateDonor(donors, id, body, tz).store
    /\ last' = Event("put", "request", "", id, body, token,
                     UpdateDonor(donors, id, body, tz).resp)
    /\ UNCHANGED <<variant, tz, now, nextId, issued, inflight, harness>>

\* The answer of a route's catch block to an error thrown by a store
\* operation that is neither a validation error nor a duplicate-key error.
StoreErrorResponse(status, message) ==
    Response(status, message, <<>>, NoErrors, Undefined)

\* GET /api/donors when Donor.find() throws.
ListDonorsStoreError(token) ==
    /\ authenticateToken(token, now) = 0
    /\ last' = Event("list", "storeError", "", 0, Undefined, token,
                     StoreErrorResponse(500, "Error fetching donors"))
    /\ UNCHANGED <<variant, tz, now, donors, nextId, issued, inflight, nputs, harness>>

\* GET /api/donors/:id when Donor.findById() throws.
GetDonorStoreError(id, token) ==
    /\ authenticateToken(token, now) = 0
    /\ last' = Event("get", "storeError", "", id, Undefined, token,
                     StoreErrorResponse(500, "Error fetching donor"))
    /\ UNCHANGED <<variant, tz, now, donors, nextId, issued, inflight, nputs, harness>>

\* POST /api/donors when the first store operation of the handler throws:
\* the catch block answers every error other than code 11000 with 400.
PostDonorStoreError(body, token) ==
    /\ authenticateToken(token, now) = 0
    /\ PostValidate(variant, body, now, tz).ok
    /\ last' = Event("post", "storeError", "", 0, body, token,
                     StoreErrorResponse(400, "Error creating donor"))
    /\ UNCHANGED <<variant, tz, now, donors, nextId, issued, inflight, nputs, harness>>

\* The extended POST handler when the store operation it resumes into
\* (findOne on cnicNumber, or save) throws.
PostResumeStoreError(c) ==
    /\ inflight[c].pc \in {"findCnic", "save"}
    /\ inflight' = [inflight EXCEPT ![c] = Idle]
    /\ last' = Event("post", "storeError", "", 0, inflight[c].sent, inflight[c].token,
                     StoreErrorResponse(400, "Error creating donor"))
    /\ UNCHANGED <<variant, tz, now, donors, nextId, issued, nputs, harness>>

\* DELETE /api/donors/:id when Donor.findByIdAndDelete() throws.
DeleteDonorStoreError(id, token) ==
    /\ authenticateToken(token, now) = 0
    /\ last' = Event("delete", "storeError", "", id, Undefined, token,
                     StoreErrorResponse(400, "Error deleting donor"))
    /\ UNCHANGED <<variant, tz, now, donors, nextId, issued, inflight, nputs, harness>>

\* PUT /api/donors/:id when Donor.findByIdAndUpdate() throws.
PutDonorStoreError(id, body, token) ==
    /\ nputs < MaxPuts
    /\ nputs' = nputs + 1
    /\ last' = Event("put", "storeError", "", id, body, token,
                     StoreErrorResponse(500, "Error updating donor"))
    /\ UNCHANGED <<variant, tz, now, donors, nextId, issued, inflight, harness>>

\* The connection a new request is accepted on.
FreeConn == CHOOSE c \in Conns : inflight[c] = Idle /\ \A d \in Busy : d # c

Next ==
    \/ \E u \in {adminUsername, Str("guest")},
          p \in {Undefined, adminPassword} : Login(u, p)
    \/ \E t \in Tokens : ListDonors(t)
    \/ \E id \in Ids, t \in Tokens : GetDonor(id, t)
    \/ \E b \in PostBodies, t \in Tokens :
          /\ Busy # Conns
          /\ (authenticateToken(t, now) # 0 => b = FullBody(Phone1, Cnic1, Str(""), Str("")))
          /\ PostDonor(FreeConn, b, t)
    \/ \E c \in Conns : PostFindCnic(c)
    \/ \E c \in Conns : PostSave(c)
    \/ \E id \in Ids, b \in PutBodies, t \in {Undefined} \cup issued : PutDonor(id, b, t)
    \/ \E id \in Ids, t \in Tokens : DeleteDonor(id, t)

Spec == Init /\ [][Next]_vars

-----------------------------------------------------------------------------
(* Harness for the derived date: one date-only lastDonation, one server    *)
(* zone, and the three places that compute nextAvailableDate from it.      *)

DateYears == {2023, 2024}
DateDays == {1, 15, 28, 29, 30, 31}

DateInputs ==
    {DateStr(t[1], t[2], t[3]) :
        t \in {u \in DateYears \X (1..12) \X DateDays : u[3] <= DaysInMonth(u[1], u[2])}}

NotDerived == [post |-> Undefined, put |-> Undefined, hook |-> Undefined]

InitDate ==
    /\ vbody \in {[EmptyBody EXCEPT !.lastDonation = v] : v \in DateInputs}
    /\ vout = NotDerived
    /\ variant = "extended" /\ tz \in Zones /\ now = Clock0
    /\ city = <<>> /\ cityOut = CityNotRun
    /\ ServerIdle

\* donorData.nextAvailableDate of the POST route.
DerivePost ==
    /\ vout.post = Undefined
    /\ vout' = [vout EXCEPT !.post = DonorData(vbody, tz).nextAvailableDate]
    /\ UNCHANGED <<variant, tz, now, donors, nextId, issued, inflight, last, nputs,
                   city, cityOut, vbody, client, boot>>

\* updateData.nextAvailableDate of the PUT route.
DerivePut ==
    /\ vout.put = Undefined
    /\ vout' = [vout EXCEPT !.put = UpdateData(vbody, tz).nextAvailableDate]
    /\ UNCHANGED <<variant, tz, now, donors, nextId, issued, inflight, last, nputs,
                   city, cityOut, vbody, client, boot>>

\* this.nextAvailableDate of the pre-save hook, run on the parsed lastDonation.
DeriveHook ==
    /\ vout.hook = Undefined
    /\ vout' = [vout EXCEPT !.hook =
           PreSave([EmptyBody EXCEPT
                       !.lastDonation = DateVal(ParseDate(vbody.lastDonation))],
                   tz).nextAvailableDate]
    /\ UNCHANGED <<variant, tz, now, donors, nextId, issued, inflight, last, nputs,
                   city, cityOut, vbody, client, boot>>

NextDate == DerivePost \/ DerivePut \/ DeriveHook

SpecDate == InitDate /\ [][NextDate]_vars

-----------------------------------------------------------------------------
(* The server under creates and reads: every POST body of the full server, *)
(* with and without a valid token, and GET by id.                          *)

NextCreate ==
    \/ Login(adminUsername, adminPassword)
    \/ \E b \in PostBodies, t \in Tokens :
          /\ Busy # Conns
          /\ (authenticateToken(t, now) # 0 => b = FullBody(Phone1, Cnic1, Str(""), Str("")))
          /\ PostDonor(FreeConn, b, t)
    \/ \E c \in Conns : PostFindCnic(c)
    \/ \E c \in Conns : PostSave(c)
    \/ \E id \in Ids, t \in issued : GetDonor(id, t)

SpecCreate == Init /\ [][NextCreate]_vars

-----------------------------------------------------------------------------
(* The server under creates and updates: two creates that differ in keys   *)
(* and dates, and every PUT body, also one whose cnicNumber may collide.   *)

UpdatePostBodies ==
    {FullBody(Phone1, Cnic1, Str(""), Str("")),
     FullBody(Phone2, Cnic2, PastDate, ClientNextDate)}

UpdatePutBodies ==
    PutBodies \cup
    {[EmptyBody EXCEPT !.lastDonation = TodayDate, !.cnicNumber = Cnic1]}

NextUpdate ==
    \/ Login(adminUsername, adminPassword)
    \/ \E b \in UpdatePostBodies, t \in issued :
          /\ Busy # Conns
          /\ PostDonor(FreeConn, b, t)
    \/ \E c \in Conns : PostFindCnic(c)
    \/ \E c \in Conns : PostSave(c)
    \/ \E id \in Ids, b \in UpdatePutBodies : PutDonor(id, b, Undefined)

SpecUpdate == Init /\ [][NextUpdate]_vars

-----------------------------------------------------------------------------
(* Login under every pairing of credentials, with the clock advancing and  *)
(* a guarded route that tells whether a token is accepted.                 *)

MaxTicks == 3

\* What a login request may carry as username and as password.
LoginInputs == {Undefined, Str(""), Str("guest"), adminUsername, adminPassword}

\* Time passes: half the life of a token.
Tick ==
    /\ now < Clock0 + MaxTicks * (TokenHours \div 2)
    /\ now' = now + (TokenHours \div 2)
    /\ last' = Event("tick", "", "", 0, Undefined, Undefined, Undefined)
    /\ UNCHANGED <<variant, tz, donors, nextId, issued, inflight, nputs, harness>>

NextAuth ==
    \/ \E u \in LoginInputs, p \in LoginInputs : Login(u, p)
    \/ \E t \in Tokens : ListDonors(t)
    \/ Tick

SpecAuth == Init /\ [][NextAuth]_vars

-----------------------------------------------------------------------------
(* The server under requests that differ in their keys only: creates with  *)
(* each pairing of two contact numbers and two CNIC numbers, updates of    *)
(* either key, deletes.                                                    *)

KeyPostBodies ==
    {FullBody(p, n, Str(""), Str("")) : p \in {Phone1, Phone2}, n \in {Cnic1, Cnic2}}

KeyPutBodies ==
    {[EmptyBody EXCEPT !.contactNumber = Phone1],
     [EmptyBody EXCEPT !.cnicNumber = Cnic1],
     [EmptyBody EXCEPT !.cnicNumber = Null]}

NextKeys ==
    \/ Login(adminUsername, adminPassword)
    \/ \E b \in KeyPostBodies, t \in issued :
          /\ Busy # Conns
          /\ PostDonor(FreeConn, b, t)
    \/ \E c \in Conns : PostFindCnic(c)
    \/ \E c \in Conns : PostSave(c)
    \/ \E id \in Ids, b \in KeyPutBodies : PutDonor(id, b, Undefined)
    \/ \E id \in Ids, t \in issued : DeleteDonor(id, t)

SpecKeys == Init /\ [][NextKeys]_vars

-----------------------------------------------------------------------------
(* The server with a store whose operations may throw: creates that build  *)
(* the store, and every donor route meeting a storage error.               *)

NextFault ==
    \/ Login(adminUsername, adminPassword)
    \/ \E b \in KeyPostBodies, t \in issued :
          /\ Busy # Conns
          /\ PostDonor(FreeConn, b, t)
    \/ \E c \in Conns : PostFindCnic(c)
    \/ \E c \in Conns : PostSave(c)
    \/ \E t \in issued : ListDonorsStoreError(t)
    \/ \E id \in Ids, t \in issued : GetDonorStoreError(id, t)
    \/ \E b \in KeyPostBodies, t \in issued : PostDonorStoreError(b, t)
    \/ \E c \in Conns : PostResumeStoreError(c)
    \/ \E id \in Ids, t \in issued : DeleteDonorStoreError(id, t)
    \/ \E id \in Ids, b \in KeyPutBodies : PutDonorStoreError(id, b, Undefined)

SpecFault == Init /\ [][NextFault]_vars

-----------------------------------------------------------------------------
(* The server under requests sent past the add-donor form: contact and     *)
(* CNIC numbers in the form's formats and outside them.                    *)

Digits == {"0", "1", "2", "3", "4", "5", "6", "7", "8", "9"}

\* s[from..to] are all digits.
AllDigits(s, from, to) == \A i \in from..to : SubSeq(s, i, i) \in Digits

\* cnicRegex of the add-donor form: /^\d{5}-\d{7}-\d{1}$/
cnicRegex(s) ==
    /\ Len(s) = 15
    /\ AllDigits(s, 1, 5) /\ SubSeq(s, 6, 6) = "-"
    /\ AllDigits(s, 7, 13) /\ SubSeq(s, 14, 14) = "-"
    /\ AllDigits(s, 15, 15)

\* contactRegex of the add-donor form: /^03\d{2}-\d{7}$/
contactRegex(s) ==
    /\ Len(s) = 12
    /\ SubSeq(s, 1, 2) = "03"
    /\ AllDigits(s, 3, 4) /\ SubSeq(s, 5, 5) = "-"
    /\ AllDigits(s, 6, 12)

\* A contact number and a CNIC number typed without the dashes.
PlainPhone == Str("03001111111")
PlainCnic == Str("1111111111111")

FormatPostBodies ==
    {FullBody(Phone1, Cnic1, Str(""), Str("")),
     FullBody(PlainPhone, Cnic2, Str(""), Str("")),
     FullBody(Phone2, PlainCnic, Str(""), Str(""))}

FormatPutBodies ==
    {[EmptyBody EXCEPT !.contactNumber = PlainPhone],
     [EmptyBody EXCEPT !.cnicNumber = PlainCnic],
     [EmptyBody EXCEPT !.contactNumber = Phone2]}

NextFormat ==
    \/ Login(adminUsername, adminPassword)
    \/ \E b \in FormatPostBodies, t \in issued :
          /\ Busy # Conns
          /\ PostDonor(FreeConn, b, t)
    \/ \E c \in Conns : PostFindCnic(c)
    \/ \E c \in Conns : PostSave(c)
    \/ \E id \in Ids, b \in FormatPutBodies : PutDonor(id, b, Undefined)

SpecFormat == Init /\ [][NextFormat]_vars

-----------------------------------------------------------------------------
(* The server under creates, deletes and reads.                            *)

NextDelete ==
    \/ Login(adminUsername, adminPassword)
    \/ \E b \in KeyPostBodies, t \in issued :
          /\ Busy # Conns
          /\ PostDonor(FreeConn, b, t)
    \/ \E c \in Conns : PostFindCnic(c)
    \/ \E c \in Conns : PostSave(c)
    \/ \E id \in Ids, t \in issued : DeleteDonor(id, t)
    \/ \E id \in Ids, t \in issued : GetDonor(id, t)
    \/ \E t \in issued : ListDonors(t)

SpecDelete == Init /\ [][NextDelete]_vars

-----------------------------------------------------------------------------
(* The guarded routes under every kind of token: none, forged, issued,     *)
(* expired.                                                                *)

GuardPostBodies == {FullBody(Phone1, Cnic1, Str(""), Str(""))}

NextGuard ==
    \/ Login(adminUsername, adminPassword)
    \/ Tick
    \/ \E t \in Tokens : ListDonors(t)
    \/ \E id \in Ids, t \in Tokens : GetDonor(id, t)
    \/ \E b \in GuardPostBodies, t \in Tokens :
          /\ Busy # Conns
          /\ PostDonor(FreeConn, b, t)
    \/ \E c \in Conns : PostFindCnic(c)
    \/ \E c \in Conns : PostSave(c)
    \/ \E id \in Ids, t \in Tokens : DeleteDonor(id, t)

SpecGuard == Init /\ [][NextGuard]_vars

-----------------------------------------------------------------------------
(* The browser client: the routes of App, the Dashboard's fetchDonors and  *)
(* Delete button, handleLogout; the server answers its requests one by one *)
(* and the answers travel back in any order.                               *)

MaxFetches == 3
RecentDays == 30

Paths == {"/", "/dashboard", "/add-donor", "/edit-donor"}

\* <Routes>: the element of the first route that matches the path.  The
\* second route for "/", the only one wrapped in ProtectedRoute, is never
\* the first match.
RouteElement(path) ==
    CASE path = "/" -> "Login"
      [] path = "/dashboard" -> "Dashboard"
      [] path = "/add-donor" -> "AddDonor"
      [] path = "/edit-donor" -> "EditDonor"

\* The token of the header `Bearer ${token}`: with nothing in localStorage
\* the header is "Bearer null", a token that is no JWT.
MalformedToken == [t |-> "jwt", iat |-> 0, signedBy |-> "nobody"]
BearerOf(token) == IF token = Undefined THEN MalformedToken ELSE token

\* calculateStats
IsRecent(v, clock) ==
    /\ Truthy(v)
    /\ v.t = "Date"
    /\ v.time >= clock - RecentDays * 24

CountBy(list, field) ==
    [v \in {list[k].doc[field] : k \in 1..Len(list)} |->
        Cardinality({k \in 1..Len(list) : list[k].doc[field] = v})]

calculateStats(list, clock) ==
    [totalDonors |-> Len(list),
     bloodGroupCount |-> CountBy(list, "bloodGroup"),
     cityCount |-> CountBy(list, "city"),
     recentDonations |->
         Cardinality({k \in 1..Len(list) : IsRecent(list[k].doc.lastDonation, clock)})]

\* A request of the Dashboard on its way: resp is Undefined until the server
\* has answered; mounted tells whether the Dashboard that sent it is still
\* the one on screen.
Request(kind, seq, id, token) ==
    [kind |-> kind, seq |-> seq, id |-> id, token |-> token, resp |-> Undefined,
     mounted |-> TRUE]

\* The requests still to be sent once the Dashboard that issued them is gone:
\* a fetch changes nothing on the server and its answer is dropped, a delete
\* still reaches the server.
Orphaned(requests) ==
    {[r EXCEPT !.mounted = FALSE] : r \in {q \in requests : q.kind = "delete"}}

\* fetchDonors called by the Dashboard on screen.
WithFetch(c) ==
    [c EXCEPT !.nfetch = c.nfetch + 1,
              !.requests = c.requests \cup
                  {Request("fetch", c.nfetch + 1, 0, BearerOf(c.token))}]

\* The router renders the route of path; a Dashboard that is mounted starts
\* from its initial state and calls fetchDonors.
Rendered(c, path) ==
    LET fresh == [ClientStart EXCEPT !.token = c.token, !.path = path,
                                     !.view = RouteElement(path),
                                     !.nfetch = c.nfetch,
                                     !.requests = Orphaned(c.requests)]
    IN IF RouteElement(path) = "Dashboard" THEN WithFetch(fresh) ELSE fresh

ServerUntouched ==
    UNCHANGED <<variant, tz, now, donors, nextId, issued, inflight, last, nputs,
                city, cityOut, vbody, vout, boot>>

\* The login view keeps the token the server issued in localStorage.
LoginStoresToken(token) ==
    /\ client.view = "Login"
    /\ client.token # token
    /\ client' = [client EXCEPT !.token = token]
    /\ ServerUntouched

\* The user opens a path of the application.
Navigate(path) ==
    /\ path # client.path
    /\ RouteElement(path) = "Dashboard" => client.nfetch < MaxFetches
    /\ client' = Rendered(client, path)
    /\ ServerUntouched

\* handleLogout
handleLogout ==
    /\ client.view = "Dashboard"
    /\ client' = Rendered([client EXCEPT !.token = Undefined], "/")
    /\ ServerUntouched

\* The Delete button of the k-th donor shown.
ClickDelete(k) ==
    /\ client.view = "Dashboard"
    /\ k \in 1..Len(client.filteredDonors)
    /\ client.nfetch + Cardinality({r \in client.requests : r.kind = "delete"})
           < MaxFetches
    /\ client' = [client EXCEPT !.requests = @ \cup
           {Request("delete", 0, client.filteredDonors[k]._id, BearerOf(client.token))}]
    /\ ServerUntouched

\* The server's answer to a request of the browser: the GET /api/donors and
\* DELETE /api/donors/:id routes behind authenticateToken.
AnswerTo(r, store, count, clock) ==
    LET auth == authenticateToken(r.token, clock)
    IN IF auth # 0 THEN AuthResponse(auth)
       ELSE IF r.kind = "fetch"
         THEN Response(200, "", <<>>, NoErrors, NewestFirst(store, count))
       ELSE Response(204, "", <<>>, NoErrors, Undefined)

\* The server serves a request of the browser.
ServeClient(r) ==
    /\ r \in client.requests
    /\ r.resp = Undefined
    /\ LET resp == AnswerTo(r, donors, nextId, now)
       IN /\ donors' = IF r.kind = "delete" /\ resp.status = 204
                       THEN Remove(donors, r.id) ELSE donors
          /\ last' = Event(IF r.kind = "fetch" THEN "list" ELSE "delete", "request", "",
                           r.id, Undefined, r.token, resp)
          /\ client' = [client EXCEPT !.requests =
                 (@ \ {r}) \cup {[r EXCEPT !.resp = resp]}]
    /\ UNCHANGED <<variant, tz, now, nextId, issued, inflight, nputs,
                   city, cityOut, vbody, vout, boot>>

\* axios resolves for a 2xx status and throws for any other.
Resolved(resp) == resp.status \in 200..299

\* The answer to a request reaches the browser.
\*   delete: the awaited axios.delete resolves and fetchDonors is called, or
\*           it throws and the error is logged;
\*   fetch:  setDonors, setFilteredDonors, calculateStats and
\*           setLoading(false), or setLoading(false) alone in the catch block.
\* An answer for a Dashboard that is no longer on screen changes nothing.
ResponseArrives(r) ==
    /\ r \in client.requests
    /\ r.resp # Undefined
    /\ LET rest == [client EXCEPT !.requests = @ \ {r}]
       IN client' =
            IF ~r.mounted THEN rest
            ELSE IF r.kind = "delete"
              THEN (IF Resolved(r.resp) THEN WithFetch(rest) ELSE rest)
            ELSE IF Resolved(r.resp)
              THEN [rest EXCEPT !.donors = r.resp.payload,
                                !.filteredDonors = r.resp.payload,
                                !.stats = calculateStats(r.resp.payload, now),
                                !.loading = FALSE,
                                !.latest = IF r.seq > @.seq
                                           THEN [seq |-> r.seq, data |-> r.resp.payload]
                                           ELSE @]
            ELSE [rest EXCEPT !.loading = FALSE]
    /\ ServerUntouched

ClientPostBodies ==
    {FullBody(Phone1, Cnic1, Str(""), Str("")),
     FullBody(Phone2, Cnic2, DateStr(2024, 5, 9), Undefined)}

NextClient ==
    \/ Login(adminUsername, adminPassword)
    \/ \E b \in ClientPostBodies, t \in issued :
          /\ Busy # Conns
          /\ PostDonor(FreeConn, b, t)
    \/ \E c \in Conns : PostFindCnic(c)
    \/ \E c \in Conns : PostSave(c)
    \/ \E t \in issued : LoginStoresToken(t)
    \/ \E path \in Paths : Navigate(path)
    \/ handleLogout
    \/ \E k \in 1..MaxDonors : ClickDelete(k)
    \/ \E r \in client.requests : ServeClient(r)
    \/ \E r \in client.requests : ResponseArrives(r)

SpecClient == Init /\ [][NextClient]_vars

-----------------------------------------------------------------------------
(* Start of the extended server: mongoose.connect, the then callback that  *)
(* calls app.listen, the catch callback that exits.                        *)

InitBoot ==
    /\ variant = "extended"
    /\ tz \in ServerZones
    /\ now = Clock0
    /\ donors = <<>>
    /\ nextId = 0
    /\ issued = {}
    /\ inflight = [c \in Conns |-> Idle]
    /\ last = Event("start", "", "", 0, Undefined, Undefined, Undefined)
    /\ nputs = 0
    /\ city = <<>> /\ cityOut = CityNotRun
    /\ vbody = Undefined /\ vout = Undefined
    /\ client = ClientStart /\ boot = BootStart

BootOnly ==
    UNCHANGED <<variant, tz, now, donors, nextId, issued, inflight, last, nputs,
                city, cityOut, vbody, vout, client>>

\* The promise of mongoose.connect is fulfilled.
ConnectResolves ==
    /\ boot.pc = "connect"
    /\ boot' = [boot EXCEPT !.db = "connected", !.pc = "then"]
    /\ BootOnly

\* The promise of mongoose.connect is rejected.
ConnectRejects ==
    /\ boot.pc = "connect"
    /\ boot' = [boot EXCEPT !.db = "failed", !.pc = "catch"]
    /\ BootOnly

\* A faulty start: app.listen is called at the top level of the file.
ListenAtStartup(b) == b.proc = "starting"

\* app.listen is called in the then callback only.
ListenInThen(b) == b.pc = "then"

\* app.listen
StartListening ==
    /\ ListenInThen(boot)
    /\ boot' = [boot EXCEPT !.proc = "listening",
                            !.pc = IF @ = "then" THEN "done" ELSE @]
    /\ BootOnly

\* The catch callback: process.exit(1).
ExitOnFailure ==
    /\ boot.pc = "catch"
    /\ boot' = [boot EXCEPT !.proc = "exited", !.code = 1, !.pc = "done"]
    /\ BootOnly

\* Requests reach the handlers of a listening process only.
Listening == boot.proc = "listening"

NextBoot ==
    \/ ConnectResolves
    \/ ConnectRejects
    \/ StartListening
    \/ ExitOnFailure
    \/ Listening /\ Login(adminUsername, adminPassword)
    \/ \E t \in Tokens : Listening /\ ListDonors(t)
    \/ \E b \in KeyPostBodies, t \in issued :
          /\ Listening
          /\ Busy # Conns
          /\ PostDonor(FreeConn, b, t)
    \/ \E c \in Conns : Listening /\ PostFindCnic(c)
    \/ \E c \in Conns : Listening /\ PostSave(c)
    \/ \E id \in Ids, t \in issued : Listening /\ DeleteDonor(id, t)

\* The callbacks of a settled promise are run.
SpecBoot ==
    /\ InitBoot
    /\ [][NextBoot]_vars
    /\ WF_boot(StartListening)
    /\ WF_boot(ExitOnFailure)

-----------------------------------------------------------------------------
(* Properties of the served store (checked under Spec and SpecKeys).       *)

StatusOf(r) == IF r = Undefined THEN 0 ELSE r.status
ErrorsOf(r) == IF r = Undefined THEN NoErrors ELSE r.validationErrors
MissingOf(r) == IF r = Undefined THEN <<>> ELSE r.missingFields

\* C1: every stored record has nextAvailableDate equal to lastDonation
\* advanced by three calendar months when lastDonation is present, and null
\* when lastDonation is absent.
C1_NextAvailableDerived ==
    \A i \in DOMAIN donors :
        IF Truthy(donors[i].lastDonation)
        THEN donors[i].nextAvailableDate =
                 DateVal(SetMonthPlus3(donors[i].lastDonation.time, tz))
        ELSE donors[i].nextAvailableDate = Null

\* The request body without the nextAvailableDate the client put in it.
WithoutClientNextDate(body) == [body EXCEPT !.nextAvailableDate = Undefined]

\* C2: the store after a create or an update is the store the same request
\* without its client-supplied nextAvailableDate would have left.
C2_ClientNextDateIgnored ==
    [][/\ last'.op = "put" =>
             donors' = UpdateDonor(donors, last'.id,
                                   WithoutClientNextDate(last'.body), tz).store
       /\ (last'.op = "post" /\ Created(last'.resp)) =>
             donors' = SaveDonor(donors, nextId + 1,
                                 WithoutClientNextDate(WithNormalizedCity(last'.body)),
                                 variant, tz).store]_vars

\* C3: a step that changes the store serves a request bearing a token the
\* login route issued (and that still verifies).
C3_StoreChangesOnlyWithToken ==
    [][donors' # donors =>
          /\ last'.token \in issued
          /\ VerifyToken(last'.token, now)]_vars

\* C4: no two stored records share a contactNumber.
C4_ContactUnique ==
    \A i, j \in DOMAIN donors :
        i # j => donors[i].contactNumber # donors[j].contactNumber

\* C5: a POST with a token, with every field valid and a contactNumber some
\* stored record already has is answered 400 with a validationErrors entry for
\* contactNumber, and leaves the store unchanged.
C5_DuplicateContactRejected ==
    [][(/\ last'.op = "post" /\ last'.step = "request"
        /\ authenticateToken(last'.token, now) = 0
        /\ last'.body \in ValidPostBodies
        /\ \E i \in DOMAIN donors :
              donors[i].contactNumber = last'.body.contactNumber) =>
          /\ StatusOf(last'.resp) = 400
          /\ "contactNumber" \in DOMAIN ErrorsOf(last'.resp)
          /\ donors' = donors]_vars

\* C6: no two stored records share a cnicNumber.
C6_CnicUnique ==
    \A i, j \in DOMAIN donors :
        i # j => IndexKey(donors[i].cnicNumber) # IndexKey(donors[j].cnicNumber)

\* Two POSTs with one cnicNumber both passed the pre-checks; the second save
\* met the unique index and was refused.
C6_Witness ==
    /\ variant = "extended"
    /\ last.op = "post" /\ last.step = "resume"
    /\ last.resp # Undefined
    /\ last.resp.message = "Duplicate entry found"
    /\ \E i \in DOMAIN donors : donors[i].cnicNumber = last.body.cnicNumber

-----------------------------------------------------------------------------
(* Properties of the validation steps (checked under SpecValidate).        *)

\* The required fields of each variant, as the data model states them.
RequiredSet(v) ==
    {"name", "contactNumber", "address", "city", "bloodGroup", "department",
     "semester"} \cup (IF v = "extended" THEN {"fatherName", "cnicNumber"} ELSE {})

AbsentOrEmpty(v) == v \in {Undefined, Null, Str(""), Text(<<>>)}

\* The required fields the harness body leaves absent or empty.
MissingSet == {f \in RequiredSet(variant) : AbsentOrEmpty(vbody[f])}

\* The body's lastDonation names a calendar day after the server's local day.
LocalToday == (now + tz) \div 24
DateAfterToday(v) ==
    /\ v.t = "datestring"
    /\ MakeDay(v.ymd[1], v.ymd[2] - 1, v.ymd[3]) > LocalToday

BadBloodGroup(v) == ~AbsentOrEmpty(v) /\ v \notin validBloodGroups

\* C7: a POST payload with N >= 1 required fields absent or empty is answered
\* 400, missingFields lists exactly those N names, and validationErrors has
\* exactly N entries, one per missing field, each "<field> is required".
C7_MissingFieldsReported ==
    (vout # Undefined /\ MissingSet # {}) =>
        /\ StatusOf(vout.resp) = 400
        /\ Len(MissingOf(vout.resp)) = Cardinality(MissingSet)
        /\ {MissingOf(vout.resp)[i] : i \in 1..Len(MissingOf(vout.resp))} = MissingSet
        /\ DOMAIN ErrorsOf(vout.resp) = MissingSet
        /\ \A f \in MissingSet : ErrorsOf(vout.resp)[f] = f \o " is required"

C7_Witness ==
    /\ vout # Undefined
    /\ variant = "extended"
    /\ vbody.name = Str("") /\ vbody.contactNumber = Undefined
    /\ vbody.fatherName = Null
    /\ Cardinality(MissingSet) = 3
    /\ MissingOf(vout.resp) = <<"name", "fatherName", "contactNumber">>

ViolatedRules ==
    (IF MissingSet # {} THEN {"required"} ELSE {})
    \cup (IF DateAfterToday(vbody.lastDonation) THEN {"date"} ELSE {})
    \cup (IF BadBloodGroup(vbody.bloodGroup) THEN {"bloodGroup"} ELSE {})

\* The entries of the first violated rule, in the order required fields,
\* date, blood group.
FirstViolated ==
    IF MissingSet # {} THEN MissingSet
    ELSE IF DateAfterToday(vbody.lastDonation) THEN {"lastDonation"}
    ELSE IF BadBloodGroup(vbody.bloodGroup) THEN {"bloodGroup"}
    ELSE {}

EightBloodGroups ==
    {Str(g) : g \in {"A+", "A-", "B+", "B-", "AB+", "AB-", "O+", "O-"}}

EnumeratedGroupsMessage ==
    "Blood group must be one of: A+, A-, B+, B-, AB+, AB-, O+, O-"

-----------------------------------------------------------------------------
(* Properties of the city normalisation (checked under SpecCity).          *)

\* C10: normalising a normalised city yields the same string.
C10_NormalizeIdempotent ==
    cityOut.n = 2 => cityOut.twice = cityOut.once

-----------------------------------------------------------------------------
(* Properties of the stored fields under creates and updates (checked      *)
(* under Spec).                                                            *)

IsUpperChar(ch) == UpperString(ch) = <<ch>> /\ LowerChar(ch) # ch
IsLowerChar(ch) == LowerChar(ch) = ch /\ UpperString(ch) # <<ch>>

\* Title case as the data model states it: in each space-separated word the
\* first character is an upper-case one and the others are lower-case ones.
IsTitleCase(s) ==
    \A w \in {split(s)[i] : i \in 1..Len(split(s))} :
        w # <<>> =>
            /\ IsUpperChar(w[1])
            /\ \A k \in 2..Len(w) : IsLowerChar(w[k])

\* C11: the city of every stored record is in normalised title case, after
\* any sequence of creates and updates.
C11_StoredCityTitleCase ==
    \A i \in DOMAIN donors :
        donors[i].city.t = "text" /\ IsTitleCase(donors[i].city.c)

\* C13: the bloodGroup of every stored record is one of the eight groups,
\* after any sequence of creates and updates.
C13_StoredBloodGroupValid ==
    \A i \in DOMAIN donors :
        donors[i].bloodGroup \in
            {Str(g) : g \in {"A+", "A-", "B+", "B-", "AB+", "AB-", "O+", "O-"}}

\* The calendar day a stored date-only lastDonation names.
DayOfDate(v) == v.time \div 24

\* C14: no stored record has a lastDonation later than the current date.
C14_StoredLastDonationNotFuture ==
    \A i \in DOMAIN donors :
        Truthy(donors[i].lastDonation) =>
            DayOfDate(donors[i].lastDonation) <= LocalToday

-----------------------------------------------------------------------------
(* Properties of the derived date (checked under SpecDate).                *)

\* The day number of a calendar date.
DayNumber(y, m, d) == DayFromYear(y) + DaysBeforeMonth(y, m) + d - 1

\* The calendar date three months after a date-only value, as a day number:
\* the same day of month when the target month has it, otherwise the last
\* day of the target month plus the excess days.
ThreeMonthsAfter(v) ==
    LET y == v.ymd[1]
        m == v.ymd[2]
        d == v.ymd[3]
        ty == IF m + 3 > 12 THEN y + 1 ELSE y
        tm == IF m + 3 > 12 THEN m + 3 - 12 ELSE m + 3
        len == DaysInMonth(ty, tm)
    IN IF d <= len THEN DayNumber(ty, tm, d)
       ELSE DayNumber(ty, tm, len) + (d - len)

Derived == {vout[k] : k \in {"post", "put", "hook"}} \ {Undefined}

\* C15: each of the three computations yields the date three months after
\* lastDonation (day of month kept when the target month has it, excess days
\* carried into the following month otherwise), so the three agree.
C15_DerivedDateThreeMonths ==
    (vout \in [{"post", "put", "hook"} -> {Undefined} \cup Derived]) =>
        \A r \in Derived :
            r = DateVal(24 * ThreeMonthsAfter(vbody.lastDonation))

-----------------------------------------------------------------------------
(* Properties of creates and reads (checked under SpecCreate).             *)

PayloadOf(r) == IF r = Undefined THEN Undefined ELSE r.payload

\* This step answers 200 to a GET of the record the step before created.
GetFollowsCreate ==
    /\ last.op = "post" /\ Created(last.resp)
    /\ last'.op = "get"
    /\ StatusOf(last'.resp) = 200
    /\ last'.id = last.resp.payload._id

\* C16 as claimed: the record a GET returns right after the POST that created
\* it has every field equal to the value submitted.
C16_RoundTripExact ==
    [][GetFollowsCreate =>
          \A f \in FieldNames : last'.resp.payload.doc[f] = last.body[f]]_vars

\* How the server stores the submitted value of a field.
StoredForm(f, sent, zone) ==
    CASE f = "city" -> Text(NormalizeCity(sent.city.c))
      [] f = "lastDonation" ->
            IF AbsentOrEmpty(sent.lastDonation) THEN Null
            ELSE DateVal(24 * DayNumber(sent.lastDonation.ymd[1],
                                        sent.lastDonation.ymd[2],
                                        sent.lastDonation.ymd[3]))
      [] f = "nextAvailableDate" ->
            IF AbsentOrEmpty(sent.lastDonation) THEN Null
            ELSE DateVal(SetMonthPlus3(ParseDate(sent.lastDonation), zone))
      [] OTHER -> sent[f]

\* C16 amended: the GET returns the record the 201 response carried; its
\* fields equal the submitted values except city (normalised), lastDonation
\* (the parsed date, null when empty) and nextAvailableDate (derived from
\* lastDonation, whatever was submitted).
C16_RoundTripNormalized ==
    [][GetFollowsCreate =>
          /\ last'.resp.payload = last.resp.payload
          /\ \A f \in FieldNames :
                last'.resp.payload.doc[f] = StoredForm(f, last.body, tz)]_vars

\* A GET has returned the newest record, whose city and dates are not the
\* submitted ones.
C16_Witness ==
    /\ last.op = "get" /\ StatusOf(last.resp) = 200
    /\ last.id = nextId
    /\ last.resp.payload.doc.city = Text(<<"A", "a">>)
    /\ last.resp.payload.doc.lastDonation = DateVal(ParseDate(PastDate))
    /\ last.resp.payload.doc.nextAvailableDate # DateVal(ParseDate(ClientNextDate))

\* C17: a step of a POST handler either suspends at an await or answers an
\* error status, the store unchanged, or answers 201 with the normalised
\* record, which is the one record it added to the store.
C17_CreateAllOrNothing ==
    [][last'.op = "post" =>
          \/ /\ last'.resp = Undefined
             /\ donors' = donors
          \/ /\ StatusOf(last'.resp) \in {400, 401, 403}
             /\ donors' = donors
          \/ /\ StatusOf(last'.resp) = 201
             /\ last'.resp.payload._id \notin DOMAIN donors
             /\ donors' = Insert(donors, last'.resp.payload._id, last'.resp.payload.doc)
             /\ Cardinality(DOMAIN donors') = Cardinality(DOMAIN donors) + 1
             /\ \A f \in FieldNames :
                   last'.resp.payload.doc[f] = StoredForm(f, last'.body, tz)]_vars

\* A save was refused by the unique index with a record already stored.
C17_Witness ==
    /\ last.op = "post"
    /\ StatusOf(last.resp) = 400
    /\ last.resp.message = "Duplicate entry found"
    /\ donors # <<>>

-----------------------------------------------------------------------------
(* Properties of updates (checked under SpecUpdate).                       *)

\* This step serves a PUT on a stored id whose body has a non-empty lastDonation.
PutWithLastDonation ==
    /\ last'.op = "put"
    /\ last'.id \in DOMAIN donors
    /\ Truthy(last'.body.lastDonation)

-----------------------------------------------------------------------------
(* Properties of login (checked under SpecAuth).                           *)

\* C20: a login request gets a token exactly when its username and its
\* password both equal the configured ones; the token is one the guarded
\* routes accept; every other login request gets 401 and no token.
C20_TokenIffBothMatch ==
    [][last'.op = "login" =>
          IF /\ last'.body.username = adminUsername
             /\ last'.body.password = adminPassword
          THEN /\ StatusOf(last'.resp) = 200
               /\ authenticateToken(last'.resp.payload, now) = 0
               /\ issued' = issued \cup {last'.resp.payload}
          ELSE /\ StatusOf(last'.resp) = 401
               /\ last'.resp.payload = Undefined
               /\ issued' = issued]_vars

\* The right username with a wrong password was answered 401, no token issued.
C20_Witness ==
    /\ last.op = "login"
    /\ last.body.username = adminUsername
    /\ last.body.password = Str("guest")
    /\ StatusOf(last.resp) = 401
    /\ issued = {}

-----------------------------------------------------------------------------
(* Properties of the duplicate answers of POST /donors (checked under      *)
(* Spec).                                                                  *)

DuplicateMessages ==
    {"Contact number already registered", "CNIC number already registered",
     "Duplicate entry found"}

\* The key fields of a body whose value some stored record already has.
Collided(body, store) ==
    {f \in {"contactNumber", "cnicNumber"} :
        \E i \in DOMAIN store : store[i][f] = body[f]}

\* C21: the validationErrors of a duplicate rejection name exactly the
\* fields whose value collided with a stored record.
C21_DuplicateNamesCollidedFields ==
    [][(/\ last'.op = "post"
        /\ StatusOf(last'.resp) = 400
        /\ last'.resp.message \in DuplicateMessages) =>
          DOMAIN ErrorsOf(last'.resp) = Collided(last'.body, donors)]_vars

-----------------------------------------------------------------------------
(* Properties of the routes under storage errors (checked under SpecFault). *)

\* C22: every donor route answers an unexpected storage error with 500.
C22_StoreErrorAnswered500 ==
    [][last'.step = "storeError" => StatusOf(last'.resp) = 500]_vars

-----------------------------------------------------------------------------
(* Properties of the stored key formats (checked under SpecFormat).        *)

InFormat(v, matches(_)) == v.t = "string" /\ matches(v.s)

\* C23: in the extended variant every stored record has a contactNumber of
\* the form 03XX-XXXXXXX and a cnicNumber of the form XXXXX-XXXXXXX-X.
C23_StoredKeysInFormat ==
    variant = "extended" =>
        \A i \in DOMAIN donors :
            /\ InFormat(donors[i].contactNumber, contactRegex)
            /\ InFormat(donors[i].cnicNumber, cnicRegex)

-----------------------------------------------------------------------------
(* Properties of deletes (checked under SpecDelete).                       *)

Deleted(e) == e.op = "delete" /\ StatusOf(e.resp) = 204

\* The ids of the records a list response carries.
ListedIds(r) == {r.payload[k]._id : k \in 1..Len(r.payload)}

\* C24: a successful DELETE removes the addressed record and nothing else
\* (nothing at all when the id matches no record); the GET of that id that
\* follows is answered 404 and the list that follows does not contain it.
C24_DeleteRemovesOnlyTarget ==
    [][/\ Deleted(last') =>
             /\ DOMAIN donors' = DOMAIN donors \ {last'.id}
             /\ \A j \in DOMAIN donors' : donors'[j] = donors[j]
             /\ last'.id \notin DOMAIN donors => donors' = donors
       /\ (Deleted(last) /\ last'.op = "get" /\ last'.id = last.id) =>
             StatusOf(last'.resp) = 404
       /\ (Deleted(last) /\ last'.op = "list") =>
             /\ StatusOf(last'.resp) = 200
             /\ last.id \notin ListedIds(last'.resp)
             /\ ListedIds(last'.resp) = DOMAIN donors]_vars

\* A record that had been created was deleted and its GET answered 404,
\* while another record is still stored.
C24_Witness ==
    /\ last.op = "get" /\ StatusOf(last.resp) = 404
    /\ last.id \in 1..nextId
    /\ last.id \notin DOMAIN donors
    /\ donors # <<>>

-----------------------------------------------------------------------------
(* The date check on the server's own day (checked under SpecValidate).    *)

\* The body's lastDonation names the server's local calendar day.
DateIsToday(v) ==
    /\ v.t = "datestring"
    /\ MakeDay(v.ymd[1], v.ymd[2] - 1, v.ymd[3]) = LocalToday

\* C25: a POST payload that is otherwise valid and whose lastDonation is the
\* date-only value of the server's current local calendar day is accepted,
\* whatever the server's timezone offset.
C25_TodayAccepted ==
    (/\ vout # Undefined
     /\ MissingSet = {}
     /\ vbody.bloodGroup \in EightBloodGroups
     /\ DateIsToday(vbody.lastDonation)) => vout.ok

-----------------------------------------------------------------------------
(* The basic server's create (checked under Spec).                         *)

\* The seven fields the basic server's route requires are present and valid,
\* and the body has neither fatherName nor cnicNumber.
BasicCompleteBody(body, clock, zone) ==
    /\ \A f \in RequiredSet("basic") : ~AbsentOrEmpty(body[f])
    /\ body.bloodGroup \in EightBloodGroups
    /\ ~InFuture(body, clock, zone)
    /\ body.fatherName = Undefined
    /\ body.cnicNumber = Undefined

\* C26: on the basic server, an authenticated POST that supplies the seven
\* required fields with valid values, no fatherName and no cnicNumber, and a
\* contact number no record has, is answered 201.
C26_BasicCreateWithoutExtendedFields ==
    [][(/\ variant = "basic"
        /\ last'.op = "post" /\ last'.step = "request"
        /\ authenticateToken(last'.token, now) = 0
        /\ BasicCompleteBody(last'.body, now, tz)
        /\ Collided(last'.body, donors) = {}) =>
          StatusOf(last'.resp) = 201]_vars

-----------------------------------------------------------------------------
(* Properties of the authentication middleware (checked under SpecGuard).  *)

\* The routes registered with authenticateToken.
GuardedOps == {"list", "get", "post", "delete"}

\* The step is the arrival of a request on a guarded route.
GuardedRequest(e) == e.op \in GuardedOps /\ e.step = "request"

\* The step started no handler: the store, the id counter and the suspended
\* handlers are as they were.
HandlerNotRun ==
    /\ donors' = donors
    /\ nextId' = nextId
    /\ inflight' = inflight

\* C27: on a guarded route a request without a token is answered 401 and a
\* request whose token fails verification is answered 403; in both cases the
\* answer is the middleware's only, no handler is started and the store is
\* unchanged; a request whose token verifies is never answered by the
\* middleware.
C27_HandlerOnlyAfterVerification ==
    [][GuardedRequest(last') =>
         /\ last'.token = Undefined =>
               /\ last'.resp = AuthResponse(401)
               /\ HandlerNotRun
         /\ (last'.token # Undefined /\ ~VerifyToken(last'.token, now)) =>
               /\ last'.resp = AuthResponse(403)
               /\ HandlerNotRun
         /\ (last'.token # Undefined /\ VerifyToken(last'.token, now)) =>
               \/ last'.resp = Undefined
               \/ last'.resp.status \notin {401, 403}]_vars

\* A delete carrying a token the server issued, since expired, was answered
\* 403 while a record was stored.
C27_Witness ==
    /\ last.op = "delete"
    /\ last.token \in issued
    /\ ~VerifyToken(last.token, now)
    /\ last.resp = AuthResponse(403)
    /\ last.id \in DOMAIN donors

-----------------------------------------------------------------------------
(* Properties of the browser client (checked under SpecClient).            *)

\* The Dashboard is on screen and none of its requests is under way.
Quiescent ==
    /\ client.view = "Dashboard"
    /\ \A r \in client.requests : ~r.mounted

\* C28: once every fetchDonors call of the Dashboard has completed, the
\* donors list, the filtered list and the statistics are those of the answer
\* to the call issued last.
C28_ShowsNewestFetch ==
    (Quiescent /\ client.nfetch > 0 /\ client.latest.seq = client.nfetch) =>
        /\ client.donors = client.latest.data
        /\ client.filteredDonors = client.latest.data
        /\ client.stats = calculateStats(client.latest.data, now)

\* C29: the Dashboard, AddDonor and EditDonor views are on screen only while
\* a token is in localStorage.
C29_ViewsNeedToken ==
    client.view \in {"Dashboard", "AddDonor", "EditDonor"} =>
        client.token # Undefined

-----------------------------------------------------------------------------
(* Properties of the server's start (checked under SpecBoot).              *)

\* The process listens only while connected, does not listen once the
\* connection attempt has failed, and exits with code 1 only.
BootSafe ==
    /\ boot.proc = "listening" => boot.db = "connected"
    /\ boot.db = "failed" => boot.proc # "listening"
    /\ boot.proc = "exited" => (boot.code = 1 /\ boot.db = "failed")

\* A request handler has run (last holds its request) only in a process that
\* is connected and listening.
HandledWhileConnected ==
    last.op # "start" => (boot.db = "connected" /\ boot.proc = "listening")

\* C30: the extended server listens only after the MongoDB connection has
\* been established; no request handler runs in a process that is not
\* connected; when the connection attempt fails the process exits with
\* code 1, never having listened.
C30_ListenOnlyAfterConnect ==
    /\ [](BootSafe /\ HandledWhileConnected)
    /\ (boot.db = "failed") ~> (boot.proc = "exited" /\ boot.code = 1)

\* The process listens and its create handler has stored a record.
C30_Witness ==
    /\ boot.proc = "listening"
    /\ boot.db = "connected"
    /\ last.op = "post"
    /\ donors # <<>>

====
